---- MODULE Spec2Model ----
(***************************************************************************)
(* SocketManager (static/js/socket.js): the event-callback registry, the   *)
(* reconnect/backoff state machine and the polling fallback.               *)
(*                                                                         *)
(* The browser runs every handler to completion on one thread, so each     *)
(* action below is one whole handler: a transport event, a timer expiry,   *)
(* a browser signal, a fetch completion or a call made by the page.        *)
(* `trace` is the list of observable effects of the handler that ran last. *)
(***************************************************************************)
EXTENDS Integers, Sequences, FiniteSets, TLC

\* ---------------------------------------------------------------- bounds
AttemptsBound == 11      \* reconnectAttempts is not let to grow past this
MaxPending == 2          \* pending reconnect timers, live poll timers and fetches in flight
MaxSubs == 1             \* registrations made while the connection machine runs
MaxLen == 3               \* registrations in the registry of the emitter runs
MaxExecuting == 2        \* /api/execute requests in flight
MaxNotifications == 2    \* notifications on the page at once
MaxRealLen == 1          \* values in a stats array shorter than its chart

\* ------------------------------------------------------ program constants
maxReconnectAttempts == 10
reconnectDelay == 1000
multiplierNum == 3       \* Math.pow(1.5, n) = 3^n / 2^n
multiplierDen == 2
delayCap == 30000

\* ------------------------------------------------------------- vocabulary
RegNames == {"connection_change", "stats_update"}
\* f and g return normally, t throws, u calls this.off(name, u) and returns
Callbacks == {"f", "g", "t", "u"}
Throwing == {"t"}
SelfRemoving == {"u"}
DataEvents == {"stats_update"}
RemoteReasons == {"transport close", "io server disconnect"}
LocalReason == "io client disconnect"
PollOutcomes == {"ok", "notok", "rejected"}
Jitters == {0, 999}      \* Math.random() * 1000, in ms

VARIABLES
    socket,              \* "null" (this.socket == null) or the transport's state
    isConnected,
    reconnectAttempts,
    eventCallbacks,      \* the Map: a function from the names that have a list
    reconnectTimers,     \* number of pending setTimeout(attemptReconnect)
    pollTimers,          \* handles of the live setInterval timers
    pollingInterval,     \* this.pollingInterval, 0 while undefined
    fetches,             \* pollForUpdates calls awaiting their response
    handler,             \* the handler that ran last
    trace,               \* its effects, in order
    uncaught,            \* an error left that handler
    localClosed,         \* history: 'io client disconnect' was reported, and since then
                         \* no 'connect' and no reconnect asked for by a browser signal
    stalePoll,           \* history: live poll timers that have seen a 'connect'
    streak               \* history: the connection attempts that have failed, while all
                         \* that has happened since construction is attempts failing and
                         \* retry timers expiring in turn; -1 once anything else happened

\* ChartManager (charts.js)
VARIABLES
    commandChart,        \* this.commandChart: whether it was created, its labels and
                         \* data.datasets[0].data
    growthChart,         \* this.growthChart, likewise
    chartHandler,        \* the ChartManager operation that ran last
    applied              \* history: the stats fields updateChartsWithRealData last
                         \* assigned to each chart

\* MuseBotDashboard (script.js)
VARIABLES
    dashboard            \* window.dashboard: its socket and isConnected, the
                         \* /api/execute requests in flight, the notifications on the
                         \* page, and the handler that ran last with its effects

vars == <<socket, isConnected, reconnectAttempts, eventCallbacks, reconnectTimers,
          pollTimers, pollingInterval, fetches, handler, trace, uncaught,
          localClosed, stalePoll, streak,
          commandChart, growthChart, chartHandler, applied, dashboard>>

chartVars == <<commandChart, growthChart, chartHandler, applied>>

managerVars == <<socket, isConnected, reconnectAttempts, eventCallbacks, reconnectTimers,
                 pollTimers, pollingInterval, fetches, handler, trace, uncaught,
                 localClosed, stalePoll, streak>>

\* ---------------------------------------------------------------- helpers
RECURSIVE Pow(_, _)
Pow(b, n) == IF n = 0 THEN 1 ELSE b * Pow(b, n - 1)

\* delays are kept in units of 1/Scale ms so that 1000 * 1.5^n is exact
Scale == Pow(multiplierDen, AttemptsBound)

Min(a, b) == IF a <= b THEN a ELSE b

Ev(op, ev, cb, n) == [op |-> op, ev |-> ev, cb |-> cb, n |-> n]

Log(s, e) == [s EXCEPT !.trace = Append(@, e)]

RemoveAt(q, i) == [k \in 1..(Len(q) - 1) |-> IF k < i THEN q[k] ELSE q[k + 1]]

\* Array.prototype.indexOf, 1-based; 0 when absent
IndexOf(q, cb) ==
    IF \E i \in 1..Len(q) : q[i] = cb
    THEN CHOOSE i \in 1..Len(q) : q[i] = cb /\ \A j \in 1..(i - 1) : q[j] # cb
    ELSE 0

St == [socket |-> socket, isConnected |-> isConnected,
       reconnectAttempts |-> reconnectAttempts, eventCallbacks |-> eventCallbacks,
       reconnectTimers |-> reconnectTimers, pollTimers |-> pollTimers,
       pollingInterval |-> pollingInterval, fetches |-> fetches,
       handler |-> handler, trace |-> trace, uncaught |-> uncaught,
       localClosed |-> localClosed, stalePoll |-> stalePoll, streak |-> streak]

\* the state a handler starts from
Enter(name) == [St EXCEPT !.handler = name, !.trace = <<>>, !.uncaught = FALSE,
                         !.streak = -1]

\* ------------------------------------------------------- event management
on(s, event, callback) ==
    LET m == s.eventCallbacks
        q == IF event \in DOMAIN m THEN m[event] ELSE <<>>
    IN  [s EXCEPT !.eventCallbacks =
            [e \in (DOMAIN m) \cup {event} |->
                IF e = event THEN Append(q, callback) ELSE m[e]]]

\* a removal that drops every occurrence of the callback
offAll(s, event, callback) ==
    LET m == s.eventCallbacks IN
    IF event \in DOMAIN m
    THEN [s EXCEPT !.eventCallbacks[event] = SelectSeq(m[event], LAMBDA c : c # callback)]
    ELSE s

off(s, event, callback) ==
    LET m == s.eventCallbacks IN
    IF event \in DOMAIN m
    THEN LET index == IndexOf(m[event], callback) IN
         IF index > 0
         THEN [s EXCEPT !.eventCallbacks[event] = RemoveAt(m[event], index)]
         ELSE s
    ELSE s


\* what calling one callback does to the manager; the error, if it throws,
\* is reported in `threw`
Call(s, event, callback) ==
    LET s1 == Log(s, Ev("call", event, callback, 0)) IN
    [st |-> IF callback \in SelfRemoving THEN off(s1, event, callback) ELSE s1,
     threw |-> callback \in Throwing]

\* a dispatch loop without the try/catch: the first error ends the loop and
\* leaves the handler
RECURSIVE forEachNoCatch(_, _, _, _)
forEachNoCatch(s, event, k, len) ==
    IF k > len THEN s
    ELSE IF k > Len(s.eventCallbacks[event]) THEN forEachNoCatch(s, event, k + 1, len)
    ELSE LET r == Call(s, event, s.eventCallbacks[event][k]) IN
         IF r.threw THEN [r.st EXCEPT !.uncaught = TRUE]
         ELSE forEachNoCatch(r.st, event, k + 1, len)

\* a dispatch loop that walks the list from its end
RECURSIVE forEachReversed(_, _, _, _)
forEachReversed(s, event, k, len) ==
    IF k > len THEN s
    ELSE IF len + 1 - k > Len(s.eventCallbacks[event])
         THEN forEachReversed(s, event, k + 1, len)
    ELSE LET cb == s.eventCallbacks[event][len + 1 - k]
             r == Call(s, event, cb)
         IN  forEachReversed(IF r.threw THEN Log(r.st, Ev("caught", event, cb, 0)) ELSE r.st,
                             event, k + 1, len)

\* Array.prototype.forEach over the live list: the length is read once, and
\* an index the list no longer has is skipped
RECURSIVE forEach(_, _, _, _)
forEach(s, event, k, len) ==
    IF k > len THEN s
    ELSE IF k > Len(s.eventCallbacks[event]) THEN forEach(s, event, k + 1, len)
    ELSE LET r == Call(s, event, s.eventCallbacks[event][k])
             s1 == IF r.threw
                   THEN Log(r.st, Ev("caught", event, s.eventCallbacks[event][k], 0))
                   ELSE r.st
         IN  forEach(s1, event, k + 1, len)

triggerEvent(s, event, data) ==
    LET s1 == Log(s, Ev("dispatch", event, data, 0)) IN
    IF event \in DOMAIN s.eventCallbacks
    THEN forEach(s1, event, 1, Len(s.eventCallbacks[event]))
    ELSE s1

\* ------------------------------------------------------------ polling
\* the handle setInterval returns: one no live timer has
NewHandle(s) == CHOOSE h \in 1..(MaxPending + 1) :
                    /\ h \notin s.pollTimers
                    /\ \A g \in 1..(h - 1) : g \in s.pollTimers

setupPollingFallback(s) ==
    LET s1 == triggerEvent(s, "polling_started", "")
        h == NewHandle(s1)
    IN  [Log(s1, Ev("setInterval", "", "", h))
            EXCEPT !.pollTimers = @ \cup {h}, !.pollingInterval = h]

handleReconnectFailed(s) ==
    setupPollingFallback(triggerEvent(s, "reconnect_failed", ""))

\* the callback given to setInterval, for the timer with handle h
pollTick(s, h) ==
    IF s.isConnected
    THEN [Log(s, Ev("clearInterval", "", "", h))
            EXCEPT !.pollTimers = @ \ {h}, !.stalePoll = @ \ {h}]
    ELSE [Log(s, Ev("fetch", "/api/poll", "", h)) EXCEPT !.fetches = @ + 1]

\* a poll that hands on whatever response it gets
pollForUpdatesAnyResponse(s, outcome) ==
    LET s1 == [s EXCEPT !.fetches = @ - 1] IN
    IF outcome = "rejected"
    THEN Log(s1, Ev("console.error", "Polling failed", "", 0))
    ELSE triggerEvent(s1, "polling_update", "data")

\* pollForUpdates from the point where the fetch settles
pollForUpdates(s, outcome) ==
    LET s1 == [s EXCEPT !.fetches = @ - 1] IN
    CASE outcome = "ok"      -> triggerEvent(s1, "polling_update", "data")
      [] outcome = "notok"   -> s1
      [] outcome = "rejected" -> Log(s1, Ev("console.error", "Polling failed", "", 0))

\* ------------------------------------------------------- reconnection
\* min(reconnectDelay * 1.5^n, 30000), in units of 1/Scale ms
BaseDelay(n) ==
    Min(reconnectDelay * Pow(multiplierNum, n) * (Scale \div Pow(multiplierDen, n)),
        delayCap * Scale)

\* a backoff without the ceiling
calculateReconnectDelayNoCap(s, jitter) ==
    reconnectDelay * Pow(multiplierNum, s.reconnectAttempts)
        * (Scale \div Pow(multiplierDen, s.reconnectAttempts)) + jitter * Scale

\* a backoff that counts the attempt about to be made
calculateReconnectDelayNextAttempt(s, jitter) ==
    BaseDelay(s.reconnectAttempts + 1) + jitter * Scale

calculateReconnectDelay(s, jitter) ==
    BaseDelay(s.reconnectAttempts) + jitter * Scale

ArmTimer(s, jitter) ==
    [Log(s, Ev("setTimeout", "attemptReconnect", "", calculateReconnectDelay(s, jitter)))
        EXCEPT !.reconnectTimers = @ + 1]

\* a scheduler that never gives up
scheduleReconnectNoMax(s, jitter) == ArmTimer(s, jitter)

\* a scheduler that arms nothing
scheduleReconnectNever(s, jitter) ==
    IF s.reconnectAttempts >= maxReconnectAttempts THEN handleReconnectFailed(s) ELSE s

scheduleReconnect(s, jitter) ==
    IF s.reconnectAttempts >= maxReconnectAttempts
    THEN handleReconnectFailed(s)
    ELSE ArmTimer(s, jitter)

handleConnectionError(s, jitter) ==
    scheduleReconnect(triggerEvent(s, "connection_error", ""), jitter)

\* a connect without the try/catch: the error of io() leaves the handler
connectNoCatch(s, ioThrows, jitter) ==
    IF ioThrows
    THEN [Log(s, Ev("io", "throws", "", 0)) EXCEPT !.uncaught = TRUE]
    ELSE [Log(s, Ev("io", "socket", "", 0)) EXCEPT !.socket = "opening"]

\* connect(): io() either returns the new socket, which starts opening, or throws
connect(s, ioThrows, jitter) ==
    IF ioThrows
    THEN handleConnectionError(Log(s, Ev("io", "throws", "", 0)), jitter)
    ELSE [Log(s, Ev("io", "socket", "", 0)) EXCEPT !.socket = "opening"]

\* socket.connect() on an existing socket: opens it unless it is open or opening
SocketConnect(s) ==
    [Log(s, Ev("socket.connect", "", "", 0))
        EXCEPT !.socket = IF @ = "closed" THEN "opening" ELSE @]

\* a reconnect that does not look at isConnected
attemptReconnectNoGuard(s, ioThrows, jitter) ==
    LET s1 == [s EXCEPT !.reconnectAttempts = @ + 1] IN
    IF s1.socket # "null" THEN SocketConnect(s1) ELSE connect(s1, ioThrows, jitter)

attemptReconnect(s, ioThrows, jitter) ==
    IF s.isConnected THEN s
    ELSE LET s1 == [s EXCEPT !.reconnectAttempts = @ + 1] IN
         IF s1.socket # "null" THEN SocketConnect(s1) ELSE connect(s1, ioThrows, jitter)

\* a connect handler that leaves the attempt counter alone
handleConnectNoReset(s) ==
    LET s1 == [s EXCEPT !.isConnected = TRUE, !.stalePoll = s.pollTimers,
                        !.localClosed = FALSE]
        s2 == triggerEvent(s1, "connection_change", "connected:true")
    IN  Log(s2, Ev("socket.emit", "get_initial_data", "", 0))

handleConnect(s) ==
    LET s1 == [s EXCEPT !.isConnected = TRUE, !.reconnectAttempts = 0,
                        !.stalePoll = s.pollTimers, !.localClosed = FALSE]
        s2 == triggerEvent(s1, "connection_change", "connected:true")
    IN  Log(s2, Ev("socket.emit", "get_initial_data", "", 0))

\* a disconnect handler that retries whatever the reason
handleDisconnectAlways(s, reason, jitter) ==
    LET s1 == [s EXCEPT !.isConnected = FALSE,
                        !.localClosed = @ \/ (reason = LocalReason)]
    IN  scheduleReconnect(triggerEvent(s1, "connection_change", reason), jitter)

handleDisconnect(s, reason, jitter) ==
    LET s1 == [s EXCEPT !.isConnected = FALSE,
                        !.localClosed = @ \/ (reason = LocalReason)]
        s2 == triggerEvent(s1, "connection_change", reason)
    IN  IF reason # LocalReason THEN scheduleReconnect(s2, jitter) ELSE s2

handleReconnect(s, attempt) ==
    triggerEvent([s EXCEPT !.reconnectAttempts = 0], "reconnect", "")

handleReconnectAttempt(s, attempt) ==
    triggerEvent([s EXCEPT !.reconnectAttempts = attempt], "reconnect_attempt", "")

handleOffline(s) == triggerEvent(s, "offline", "")

\* -------------------------------------------------------- public methods
\* an emit that does not look at isConnected
emitUnguarded(s, event) ==
    IF s.socket # "null"
    THEN Log(s, Ev("socket.emit", event, "", 0))
    ELSE s

emit(s, event) ==
    IF s.isConnected /\ s.socket # "null"
    THEN Log(s, Ev("socket.emit", event, "", 0))
    ELSE s

\* socket.disconnect() reports 'disconnect' to the handlers, synchronously,
\* only when the socket was open
disconnect(s) ==
    LET s1 == IF s.socket = "null" THEN s
              ELSE LET s2 == [Log(s, Ev("socket.disconnect", "", "", 0))
                                EXCEPT !.socket = "closed"]
                   IN  IF s.socket = "open" THEN handleDisconnect(s2, LocalReason, 0) ELSE s2
    IN  [s1 EXCEPT !.isConnected = FALSE]

EmptyMap == [e \in {} |-> <<>>]

\* a teardown that keeps the registry
destroyNoClear(s) ==
    LET s1 == disconnect(s) IN
    IF s1.pollingInterval # 0
    THEN [Log(s1, Ev("clearInterval", "", "", s1.pollingInterval))
            EXCEPT !.pollTimers = @ \ {s1.pollingInterval},
                   !.stalePoll = @ \ {s1.pollingInterval}]
    ELSE s1

destroy(s) ==
    LET s1 == [disconnect(s) EXCEPT !.eventCallbacks = EmptyMap] IN
    IF s1.pollingInterval # 0
    THEN [Log(s1, Ev("clearInterval", "", "", s1.pollingInterval))
            EXCEPT !.pollTimers = @ \ {s1.pollingInterval},
                   !.stalePoll = @ \ {s1.pollingInterval}]
    ELSE s1

\* ------------------------------------------------------------- actions
Subscribed(m) ==
    LET RECURSIVE Sum(_)
        Sum(D) == IF D = {} THEN 0
                  ELSE LET e == CHOOSE x \in D : TRUE IN Len(m[e]) + Sum(D \ {e})
    IN  Sum(DOMAIN m)

WithinBounds(t) ==
    /\ t.reconnectAttempts <= AttemptsBound
    /\ t.reconnectTimers + Cardinality(t.pollTimers) + t.fetches <= MaxPending

Commit(t) ==
    /\ WithinBounds(t)
    /\ socket' = t.socket
    /\ isConnected' = t.isConnected
    /\ reconnectAttempts' = t.reconnectAttempts
    /\ eventCallbacks' = t.eventCallbacks
    /\ reconnectTimers' = t.reconnectTimers
    /\ pollTimers' = t.pollTimers
    /\ pollingInterval' = t.pollingInterval
    /\ fetches' = t.fetches
    /\ handler' = t.handler
    /\ trace' = t.trace
    /\ uncaught' = t.uncaught
    /\ localClosed' = t.localClosed
    /\ stalePoll' = t.stalePoll
    /\ streak' = t.streak
    /\ UNCHANGED chartVars
    /\ UNCHANGED dashboard

\* the fields the constructor sets, before init() runs
Constructed ==
    [socket |-> "null", isConnected |-> FALSE, reconnectAttempts |-> 0,
     eventCallbacks |-> EmptyMap, reconnectTimers |-> 0, pollTimers |-> {},
     pollingInterval |-> 0, fetches |-> 0, handler |-> "constructor",
     trace |-> <<>>, uncaught |-> FALSE, localClosed |-> FALSE, stalePoll |-> {},
     streak |-> 0]

SocketManagerInit(ioThrows, jitter) ==
        LET t == connect(Constructed, ioThrows, jitter) IN
        /\ socket = t.socket
        /\ isConnected = t.isConnected
        /\ reconnectAttempts = t.reconnectAttempts
        /\ eventCallbacks = t.eventCallbacks
        /\ reconnectTimers = t.reconnectTimers
        /\ pollTimers = t.pollTimers
        /\ pollingInterval = t.pollingInterval
        /\ fetches = t.fetches
        /\ handler = t.handler
        /\ trace = t.trace
        /\ uncaught = t.uncaught
        /\ localClosed = t.localClosed
        /\ stalePoll = t.stalePoll
        /\ streak = IF ioThrows THEN 1 ELSE 0

\* ------------------------------------------------------- MuseBotDashboard
\* the fields the constructor sets, before init() runs
DashboardConstructed ==
    [socket |-> "null", isConnected |-> FALSE, executing |-> 0, notifications |-> <<>>,
     handler |-> "constructor", trace |-> <<>>, uncaught |-> FALSE]

\* the state a dashboard handler starts from
DashboardEnter(name) ==
    [dashboard EXCEPT !.handler = name, !.trace = <<>>, !.uncaught = FALSE]

\* connectWebSocket: io() and the registrations, or the polling fallback when
\* io() throws
connectWebSocket(d, ioThrows) ==
    IF ioThrows
    THEN [d EXCEPT !.trace = @ \o <<Ev("io", "throws", "", 0),
                                    Ev("setInterval", "fetchStats", "", 0)>>]
    ELSE [d EXCEPT !.socket = "opening", !.trace = Append(@, Ev("io", "socket", "", 0))]

\* showNotification: the element is appended and a timer is armed to remove it
showNotification(d, message, type) ==
    [d EXCEPT !.trace = Append(@, Ev("showNotification", message, type, 0)),
              !.notifications = Append(@, type)]

\* an executeCommand that does not look at isConnected
executeCommandUnguarded(d, command) ==
    [d EXCEPT !.trace = Append(@, Ev("fetch", "/api/execute", command, 0)),
              !.executing = @ + 1]

\* executeCommand up to its first await
executeCommand(d, command) ==
    IF ~d.isConnected
    THEN showNotification(d, "Not connected to bot", "error")
    ELSE [d EXCEPT !.trace = Append(@, Ev("fetch", "/api/execute", command, 0)),
                   !.executing = @ + 1]

\* how a POST /api/execute ends: fetch rejects, response.json() rejects, or
\* the body is read and data.success is truthy or falsy
ExecuteOutcomes == {"rejected", "unreadable", "success", "failure"}

\* executeCommand from the point where the fetch settles
executeCommandResumes(d, outcome) ==
    LET d1 == [d EXCEPT !.executing = @ - 1] IN
    CASE outcome \in {"rejected", "unreadable"} ->
            showNotification(
                [d1 EXCEPT !.trace =
                    Append(@, Ev("console.error", "Command execution failed", "", 0))],
                "Failed to execute command", "error")
      [] outcome = "success" -> showNotification(d1, "data.message", "success")
      [] outcome = "failure" -> showNotification(d1, "data.message", "error")

WithinDashboardBounds(d) ==
    /\ d.executing <= MaxExecuting
    /\ Len(d.notifications) <= MaxNotifications

DashboardCommit(d) ==
    /\ WithinDashboardBounds(d)
    /\ dashboard' = d
    /\ UNCHANGED <<managerVars, chartVars>>

DashboardInit(ioThrows) ==
    dashboard = connectWebSocket(DashboardConstructed, ioThrows)

\* socket.on('connect') of the dashboard
DashboardConnect ==
    /\ dashboard.socket = "opening"
    /\ DashboardCommit(
           [DashboardEnter("connect") EXCEPT
               !.socket = "open",
               !.isConnected = TRUE,
               !.trace = <<Ev("updateConnectionStatus", "true", "", 0)>>])

\* socket.on('disconnect') of the dashboard; the transport opens again by itself
DashboardDisconnect ==
    /\ dashboard.socket = "open"
    /\ DashboardCommit(
           [DashboardEnter("disconnect") EXCEPT
               !.socket = "opening",
               !.isConnected = FALSE,
               !.trace = <<Ev("updateConnectionStatus", "false", "", 0)>>])

\* a quick action button or the page calls executeCommand
ExecuteCommand ==
    DashboardCommit(executeCommand(DashboardEnter("executeCommand"), "command"))

\* the fetch of an executeCommand settles
ExecuteCommandResumes ==
    \E outcome \in ExecuteOutcomes :
        /\ dashboard.executing > 0
        /\ DashboardCommit(executeCommandResumes(
               [DashboardEnter("executeCommandResumes") EXCEPT
                   !.trace = <<Ev("response", outcome, "", 0)>>],
               outcome))

\* the 5-second timer of the oldest notification removes it
NotificationTimeout ==
    /\ dashboard.notifications # <<>>
    /\ DashboardCommit(
           [DashboardEnter("notificationTimeout") EXCEPT
               !.notifications = Tail(@),
               !.trace = <<Ev("notification.remove", "", "", 0)>>])

DashboardNext ==
    \/ DashboardConnect
    \/ DashboardDisconnect
    \/ ExecuteCommand
    \/ ExecuteCommandResumes
    \/ NotificationTimeout

\* ------------------------------------------------------------ ChartManager
\* a stats field: missing, or an array (an array is truthy even when empty)
Absent == [present |-> FALSE, value |-> <<>>]
Given(a) == [present |-> TRUE, value |-> a]

\* this.commandChart / this.growthChart when the canvas is missing
NoChart == [exists |-> FALSE, labels |-> <<>>, data |-> <<>>]

commandLabels == <<"Play", "Skip", "Stop", "Volume", "Queue", "Other">>
growthLabels == <<"Jan", "Feb", "Mar", "Apr", "May", "Jun", "Jul">>

createCommandUsageChart(ctx) ==
    IF ~ctx THEN NoChart
    ELSE [exists |-> TRUE,
          labels |-> commandLabels,
          data |-> <<65, 59, 80, 81, 56, 55>>]

createServerGrowthChart(ctx) ==
    IF ~ctx THEN NoChart
    ELSE [exists |-> TRUE,
          labels |-> growthLabels,
          data |-> <<65, 78, 90, 81, 96, 105, 120>>]

\* Math.random() in hundredths: the least and the greatest draw
RandomUnit == 100
RandomDraws == {0, 99}

\* the draws of one data.map(() => Math.random()...) over n values: all least,
\* all greatest, or the two in turn
DrawSequences(n) ==
    {[i \in 1..n |-> r] : r \in RandomDraws}
        \cup {[i \in 1..n |-> IF i % 2 = 1 THEN 0 ELSE 99]}

\* Math.floor(Math.random() * 100) + 20
commandRandom(r) == (r * 100) \div RandomUnit + 20

\* Math.floor(Math.random() * 50) + 80
growthRandom(r) == (r * 50) \div RandomUnit + 80

\* array.slice(1)
Slice1(a) == IF a = <<>> THEN <<>> ELSE Tail(a)

\* the command-usage half of updateChartsWithRandomData
randomCommandData(chart, draws) ==
    IF chart.exists
    THEN [chart EXCEPT !.data = [i \in 1..Len(chart.data) |-> commandRandom(draws[i])]]
    ELSE chart

\* the growth half of updateChartsWithRandomData
randomGrowthData(chart, draw) ==
    IF chart.exists
    THEN [chart EXCEPT !.data = Append(Slice1(chart.data), growthRandom(draw))]
    ELSE chart

\* one branch of updateChartsWithRealData: if (chart && field) data = field
realData(chart, field) ==
    IF chart.exists /\ field.present
    THEN [chart EXCEPT !.data = field.value]
    ELSE chart

\* the arrays the server sends: of the chart's length, or shorter
RealArray(n) == [i \in 1..n |-> 7]
StatsFields(labels) ==
    {Absent} \cup {Given(RealArray(n)) : n \in (0..MaxRealLen) \cup {Len(labels)}}

ChartManagerInit(commandCtx, growthCtx) ==
    /\ commandChart = createCommandUsageChart(commandCtx)
    /\ growthChart = createServerGrowthChart(growthCtx)
    /\ chartHandler = "constructor"
    /\ applied = [command_usage |-> Absent, growth_data |-> Absent]

\* the setInterval of setupChartUpdates ticks
ChartTick ==
    \E draws \in DrawSequences(Len(commandChart.data)), draw \in RandomDraws :
        /\ commandChart' = randomCommandData(commandChart, draws)
        /\ growthChart' = randomGrowthData(growthChart, draw)
        /\ chartHandler' = "updateChartsWithRandomData"
        /\ UNCHANGED applied
        /\ UNCHANGED <<managerVars, dashboard>>

\* the page hands the server's stats to updateChartsWithRealData
UpdateChartsWithRealData ==
    \E cu \in StatsFields(commandLabels), gd \in StatsFields(growthLabels) :
        /\ commandChart' = realData(commandChart, cu)
        /\ growthChart' = realData(growthChart, gd)
        /\ chartHandler' = "updateChartsWithRealData"
        /\ applied' = [command_usage |-> IF commandChart.exists /\ cu.present
                                         THEN cu ELSE applied.command_usage,
                       growth_data |-> IF growthChart.exists /\ gd.present
                                       THEN gd ELSE applied.growth_data]
        /\ UNCHANGED <<managerVars, dashboard>>

ChartNext ==
    \/ ChartTick
    \/ UpdateChartsWithRealData

\* the chart presenter alone, on a page with or without each canvas
ChartInit ==
    /\ SocketManagerInit(FALSE, 0)
    /\ DashboardInit(FALSE)
    /\ \E commandCtx \in BOOLEAN, growthCtx \in BOOLEAN :
           ChartManagerInit(commandCtx, growthCtx)

ChartSpec == ChartInit /\ [][ChartNext]_vars

\* the page after DOMContentLoaded: both managers constructed, on a page that
\* has both canvases
Init ==
    /\ \E ioThrows \in BOOLEAN, jitter \in Jitters : SocketManagerInit(ioThrows, jitter)
    /\ ChartManagerInit(TRUE, TRUE)
    /\ DashboardInit(FALSE)

\* the dashboard alone
DashboardSpecInit ==
    /\ SocketManagerInit(FALSE, 0)
    /\ ChartManagerInit(TRUE, TRUE)
    /\ \E ioThrows \in BOOLEAN : DashboardInit(ioThrows)

DashboardSpec == DashboardSpecInit /\ [][DashboardNext]_vars

\* the page registers or removes a callback
On(bound, names, cbs) ==
    \E event \in names, callback \in cbs :
        /\ Subscribed(eventCallbacks) < bound
        /\ Commit(on(Log(Enter("on"), Ev("on", event, callback, 0)), event, callback))

Off(names, cbs) ==
    \E event \in names, callback \in cbs :
        Commit(off(Log(Enter("off"), Ev("off", event, callback, 0)), event, callback))

\* triggerEvent called on the manager
TriggerEvent ==
    \E event \in RegNames : Commit(triggerEvent(Enter("triggerEvent"), event, "data"))

\* socket.on('connect')
TransportConnect ==
    /\ socket = "opening"
    /\ Commit(handleConnect([Enter("connect") EXCEPT !.socket = "open"]))

\* socket.on('disconnect'): the server or the network closed an open socket;
\* the transport retries by itself unless the server closed it
TransportDisconnect ==
    \E reason \in RemoteReasons, jitter \in Jitters :
        /\ socket = "open"
        /\ Commit(handleDisconnect(
               [Enter("disconnect") EXCEPT
                   !.socket = IF reason = "io server disconnect" THEN "closed" ELSE "opening"],
               reason, jitter))

\* the handler that ran last made a connection attempt that has not failed yet
AttemptAwaited ==
    /\ handler \in {"constructor", "reconnectTimer"}
    /\ \A i \in 1..Len(trace) : trace[i] # Ev("io", "throws", "", 0)

\* the handler that ran last saw a connection attempt fail
AttemptFailed ==
    \/ handler = "connect_error"
    \/ /\ handler \in {"constructor", "reconnectTimer"}
       /\ \E i \in 1..Len(trace) : trace[i] = Ev("io", "throws", "", 0)

\* socket.on('connect_error'): an opening failed; the transport keeps trying or stops
TransportConnectError ==
    \E next \in {"opening", "closed"}, jitter \in Jitters :
        /\ socket = "opening"
        /\ Commit(handleConnectionError(
               [Enter("connect_error") EXCEPT
                   !.socket = next,
                   !.streak = IF streak >= 0 /\ AttemptAwaited THEN streak + 1 ELSE -1],
               jitter))

\* socket.on('reconnect')
TransportReconnect ==
    /\ socket = "open"
    /\ Commit(handleReconnect(Enter("reconnect"), 1))

\* socket.on('reconnect_attempt')
TransportReconnectAttempt ==
    \E attempt \in 1..maxReconnectAttempts :
        /\ socket = "opening"
        /\ Commit(handleReconnectAttempt(Enter("reconnect_attempt"), attempt))

\* socket.on('reconnect_failed'): the transport's own retries are used up
TransportReconnectFailed ==
    /\ socket = "opening"
    /\ Commit(handleReconnectFailed([Enter("reconnect_failed") EXCEPT !.socket = "closed"]))

\* socket.on('stats_update') and the other data events
TransportData ==
    \E event \in DataEvents :
        /\ socket = "open"
        /\ Commit(triggerEvent(Enter("data"), event, "data"))

\* window 'online'
\* io() is reached, and then a delay drawn, only while there is no socket
IoOutcomes == IF socket = "null" THEN BOOLEAN ELSE {FALSE}
IoJitters == IF socket = "null" THEN Jitters ELSE {0}

Online ==
    \E ioThrows \in IoOutcomes, jitter \in IoJitters :
        LET s == Enter("online") IN
        Commit([attemptReconnect(s, ioThrows, jitter)
                    EXCEPT !.localClosed = @ /\ s.isConnected])

\* window 'offline'
Offline == Commit(handleOffline(Enter("offline")))

\* document 'visibilitychange'
VisibilityChange ==
    \E hidden \in BOOLEAN, ioThrows \in IoOutcomes, jitter \in IoJitters :
        LET s == Log(Enter("visibilitychange"),
                     Ev("document.hidden", IF hidden THEN "true" ELSE "false", "", 0)) IN
        Commit(IF ~hidden /\ ~s.isConnected
               THEN [attemptReconnect(s, ioThrows, jitter) EXCEPT !.localClosed = FALSE]
               ELSE s)

\* a setTimeout armed by scheduleReconnect expires
ReconnectTimer ==
    \E ioThrows \in IoOutcomes, jitter \in IoJitters :
        /\ reconnectTimers > 0
        /\ Commit(attemptReconnect(
               [Enter("reconnectTimer") EXCEPT
                   !.reconnectTimers = @ - 1,
                   !.streak = IF streak >= 1 /\ AttemptFailed
                              THEN (IF socket = "null" /\ ioThrows THEN streak + 1 ELSE streak)
                              ELSE -1],
               ioThrows, jitter))

\* a setInterval armed by setupPollingFallback ticks
PollTick ==
    \E h \in pollTimers : Commit(pollTick(Enter("pollTick"), h))

\* the fetch of a pollForUpdates settles
PollSettles ==
    \E outcome \in PollOutcomes :
        /\ fetches > 0
        /\ Commit(pollForUpdates(Log(Enter("pollSettles"), Ev("response", outcome, "", 0)),
                                 outcome))

Emit == Commit(emit(Enter("emit"), "command"))

Disconnect == Commit(disconnect(Enter("disconnect()")))

Destroy == Commit(destroy(Enter("destroy")))

\* the subscriber the connection runs register: one that throws
SpecNames == {"connection_change"}
SpecCallbacks == {"t"}

Next ==
    \/ On(MaxSubs, SpecNames, SpecCallbacks)
    \/ Off(SpecNames, SpecCallbacks)
    \/ TransportConnect
    \/ TransportDisconnect
    \/ TransportConnectError
    \/ TransportReconnect
    \/ TransportReconnectAttempt
    \/ TransportReconnectFailed
    \/ TransportData
    \/ Online
    \/ Offline
    \/ VisibilityChange
    \/ ReconnectTimer
    \/ PollTick
    \/ PollSettles
    \/ Emit
    \/ Disconnect
    \/ Destroy

Spec == Init /\ [][Next]_vars

\* the registry alone: registrations, removals and dispatches
EmitterNext ==
    \/ On(MaxLen, RegNames, Callbacks)
    \/ Off(RegNames, Callbacks)
    \/ TriggerEvent

EmitterSpec == Init /\ [][EmitterNext]_vars

\* the manager left to itself: transport events, timers and polls only, with no
\* call by the page and no 'online', 'offline' or 'visibilitychange' signal
RecoverNext ==
    \/ TransportConnect
    \/ TransportDisconnect
    \/ TransportConnectError
    \/ TransportReconnect
    \/ TransportReconnectAttempt
    \/ TransportReconnectFailed
    \/ TransportData
    \/ ReconnectTimer
    \/ PollTick
    \/ PollSettles

\* timers expire and fetches settle; a transport that is opened again and again
\* does connect
RecoverSpec ==
    /\ Init
    /\ [][RecoverNext]_vars
    /\ WF_vars(ReconnectTimer)
    /\ WF_vars(PollTick)
    /\ WF_vars(PollSettles)
    /\ SF_vars(TransportConnect)

\* ------------------------------------------------------------ properties
Calls == SelectSeq(trace, LAMBDA e : e.op = "call")

\* the list the Map holds for a name, empty when the name has none
ListOf(m, event) == IF event \in DOMAIN m THEN m[event] ELSE <<>>

\* no callback of the dispatch changed the registry while it ran
QuietDispatch ==
    /\ handler = "triggerEvent"
    /\ \A i \in 1..Len(trace) : trace[i].op = "call" => trace[i].cb \notin SelfRemoving

\* C1: triggerEvent(name, data) invokes the callbacks registered for name, in
\* the order of their registration, a callback registered twice at both of its
\* positions, and no callback registered under another name (for a dispatch
\* during which no callback changes the registry).
C1_DispatchInRegistrationOrder ==
    QuietDispatch =>
        /\ \A i \in 1..Len(Calls) : Calls[i].ev = trace[1].ev
        /\ [i \in 1..Len(Calls) |-> Calls[i].cb] = ListOf(eventCallbacks, trace[1].ev)

C1_Witness ==
    /\ QuietDispatch
    /\ trace[1].ev = "stats_update"
    /\ ListOf(eventCallbacks, "stats_update") = <<"f", "g", "f">>

\* C2: when a callback throws during triggerEvent, every callback registered
\* after it for the same name is still invoked, and the error does not leave
\* triggerEvent (for a dispatch during which no callback changes the registry).
C2_ThrowIsIsolated ==
    QuietDispatch =>
        /\ ~uncaught
        /\ \A p \in 1..Len(trace) :
              trace[p].op = "caught" =>
                LET list == ListOf(eventCallbacks, trace[1].ev)
                    done == Cardinality({q \in 1..p : trace[q].op = "call"})
                IN  /\ trace[p].cb = list[done]
                    /\ \A j \in (done + 1)..Len(list) :
                          \E q \in (p + 1)..Len(trace) :
                              /\ trace[q].op = "call"
                              /\ trace[q].cb = list[j]
                              /\ Cardinality({r \in 1..q : trace[r].op = "call"}) = j

C2_Witness ==
    /\ QuietDispatch
    /\ trace[1].ev = "connection_change"
    /\ ListOf(eventCallbacks, "connection_change") = <<"t", "f", "g">>
    /\ ~uncaught

\* C3: off(name, cb) removes exactly the earliest occurrence of cb from the
\* list of name and leaves every other entry in place and in order; when cb is
\* not in the list, or name has no list, the registry is unchanged.
C3_OffRemovesFirstOnly ==
    [][handler' = "off" =>
        LET e == trace'[1].ev
            c == trace'[1].cb
            q == ListOf(eventCallbacks, e)
        IN  IF \E i \in 1..Len(q) : q[i] = c
            THEN \E i \in 1..Len(q) :
                    /\ q[i] = c
                    /\ \A j \in 1..(i - 1) : q[j] # c
                    /\ DOMAIN eventCallbacks' = DOMAIN eventCallbacks
                    /\ eventCallbacks'[e] = SubSeq(q, 1, i - 1) \o SubSeq(q, i + 1, Len(q))
                    /\ \A o \in DOMAIN eventCallbacks \ {e} :
                          eventCallbacks'[o] = eventCallbacks[o]
            ELSE eventCallbacks' = eventCallbacks]_vars

\* off("stats_update", f) has run and a later registration of f is still there
C3_Witness ==
    /\ handler = "off"
    /\ trace[1].ev = "stats_update"
    /\ trace[1].cb = "f"
    /\ ListOf(eventCallbacks, "stats_update") = <<"g", "f">>

Has(op, ev) == \E i \in 1..Len(trace) : trace[i].op = op /\ trace[i].ev = ev
HasOp(op) == \E i \in 1..Len(trace) : trace[i].op = op
Dispatched(ev, data) ==
    \E i \in 1..Len(trace) : trace[i] = Ev("dispatch", ev, data, 0)

\* C4: once the polling fallback has been entered, no further connection
\* error, disconnect, transport 'reconnect_failed' or browser signal emits
\* `reconnect_failed` again or starts a second polling timer while the first
\* one is live.
C4_FallbackEnteredOnce ==
    [][/\ pollTimers # {} => ~Has("dispatch", "reconnect_failed")'
       /\ Cardinality(pollTimers') <= 1]_vars

\* C5: after the transport has reported 'io client disconnect', no reconnect
\* timer that was armed before it makes a transport connect call.
C5_NoReconnectAfterLocalDisconnect ==
    ~(/\ localClosed
      /\ handler = "reconnectTimer"
      /\ (HasOp("socket.connect") \/ HasOp("io")))

\* min(1000 * 1.5^n, 30000) in units of 1/Scale ms, from the claim's words
CappedBackoff(n) ==
    IF 1000 * Pow(3, n) <= 30000 * Pow(2, n)
    THEN 1000 * Pow(3, n) * (Scale \div Pow(2, n))
    ELSE 30000 * Scale

\* C6: for an attempt count n < 10 the delay d of the timer scheduleReconnect
\* arms satisfies min(1000 * 1.5^n, 30000) <= d <= min(1000 * 1.5^n, 30000) + 1000,
\* and the part of it without the jitter does not decrease with n.
C6_DelayWithinBackoffWindow ==
    \A i \in 1..Len(trace) :
        trace[i].op = "setTimeout" =>
            /\ reconnectAttempts < maxReconnectAttempts
            /\ CappedBackoff(reconnectAttempts) <= trace[i].n
            /\ trace[i].n <= CappedBackoff(reconnectAttempts) + 1000 * Scale
            /\ \E j \in Jitters :
                  /\ trace[i].n - j * Scale = CappedBackoff(reconnectAttempts)
                  /\ \A m \in 0..reconnectAttempts :
                        CappedBackoff(m) <= trace[i].n - j * Scale

\* the ceiling decides the delay: 1000 * 1.5^9 > 30000
C6_Witness ==
    /\ reconnectAttempts = 9
    /\ \E i \in 1..Len(trace) :
          trace[i].op = "setTimeout" /\ trace[i].n = (30000 + 999) * Scale

\* C7: when the transport reports 'connect', isConnected is true and
\* reconnectAttempts is 0 afterwards, `connection_change` with connected:true
\* has been dispatched to the subscribers, and 'get_initial_data' has been sent
\* on the transport after that dispatch.
C7_ConnectResetsAndAnnounces ==
    handler = "connect" =>
        /\ isConnected
        /\ reconnectAttempts = 0
        /\ ~uncaught
        /\ trace[1] = Ev("dispatch", "connection_change", "connected:true", 0)
        /\ trace[Len(trace)] = Ev("socket.emit", "get_initial_data", "", 0)
        /\ [i \in 1..Len(Calls) |-> Calls[i].cb] = ListOf(eventCallbacks, "connection_change")
        /\ \A i \in 2..(Len(trace) - 1) :
              trace[i].op \in {"call", "caught"} /\ trace[i].ev = "connection_change"

\* 'connect' arrives while the polling fallback runs and a subscriber throws
C7_Witness ==
    /\ handler = "connect"
    /\ pollTimers # {}
    /\ Has("caught", "connection_change")

\* C8: a transport 'disconnect' sets isConnected to false and dispatches
\* `connection_change` with connected:false and the reason; for a reason other
\* than 'io client disconnect' scheduleReconnect then runs (a retry timer is
\* armed when reconnectAttempts < 10), and for 'io client disconnect' no retry
\* timer is armed.
C8_DisconnectSchedulesRetry ==
    /\ handler = "disconnect" =>
          /\ ~isConnected
          /\ trace[1].op = "dispatch"
          /\ trace[1].ev = "connection_change"
          /\ trace[1].cb \in RemoteReasons
          /\ IF reconnectAttempts < maxReconnectAttempts
             THEN trace[Len(trace)].op = "setTimeout" /\ reconnectTimers >= 1
             ELSE Has("dispatch", "reconnect_failed")
    /\ Dispatched("connection_change", LocalReason) =>
          /\ handler \in {"disconnect()", "destroy"}
          /\ ~isConnected
          /\ ~HasOp("setTimeout")
          /\ ~HasOp("setInterval")

C8_Witness ==
    /\ handler = "disconnect"
    /\ Dispatched("connection_change", "transport close")
    /\ Has("caught", "connection_change")
    /\ HasOp("setTimeout")

\* C9: at most one reconnect timer armed by scheduleReconnect is pending.
C9_OneReconnectTimer == reconnectTimers <= 1

\* C10: after a 'connect' that arrives while a polling timer is live, that
\* timer issues no further /api/poll fetch.
C10_PollingStopsAfterConnect ==
    \A i \in 1..Len(trace) : trace[i].op = "fetch" => trace[i].n \notin stalePoll

\* C11: in every reachable state 0 <= reconnectAttempts <= maxReconnectAttempts.
C11_AttemptsBounded ==
    0 <= reconnectAttempts /\ reconnectAttempts <= maxReconnectAttempts

ConnectCall == HasOp("socket.connect") \/ HasOp("io")

\* the handler that ran was a browser signal asking for a connection:
\* 'online', or 'visibilitychange' with the document visible
SignalRan(h, tr) ==
    \/ h = "online"
    \/ h = "visibilitychange" /\ tr[1] = Ev("document.hidden", "false", "", 0)

\* C12: a browser 'online' signal, or 'visibilitychange' with the document
\* visible, makes a transport connect call at once exactly when isConnected is
\* false; when isConnected is true it leaves reconnectAttempts and the
\* transport untouched.
C12_SignalReconnectsIffDisconnected ==
    [][SignalRan(handler', trace') =>
        IF isConnected
        THEN /\ ~ConnectCall'
             /\ reconnectAttempts' = reconnectAttempts
             /\ socket' = socket
             /\ isConnected'
        ELSE /\ ConnectCall'
             /\ reconnectAttempts' = reconnectAttempts + 1
             /\ reconnectTimers' >= reconnectTimers]_vars

\* 'online' made the connect call while a backoff timer was still pending
C12_Witness ==
    /\ handler = "online"
    /\ HasOp("socket.connect")
    /\ reconnectTimers > 0
    /\ ~isConnected

\* the effects of a handler that are not part of a dispatch to subscribers
Effects(tr) == SelectSeq(tr, LAMBDA e : e.op \notin {"call", "caught"})

\* C14: scheduleReconnect with reconnectAttempts >= 10 arms no retry timer,
\* emits `reconnect_failed` and then `polling_started` and starts the polling
\* timer; with reconnectAttempts < 10 it emits no event, starts no polling and
\* arms exactly one timer, whose expiry calls attemptReconnect.
C14_ScheduleReconnectBranches ==
    [][handler' \in {"connect_error", "disconnect"} =>
        LET rest == Tail(Effects(trace')) IN
        IF reconnectAttempts' >= maxReconnectAttempts
        THEN /\ Len(rest) = 3
             /\ rest[1] = Ev("dispatch", "reconnect_failed", "", 0)
             /\ rest[2] = Ev("dispatch", "polling_started", "", 0)
             /\ rest[3].op = "setInterval"
             /\ rest[3].n \notin pollTimers
             /\ pollTimers' = pollTimers \cup {rest[3].n}
             /\ pollingInterval' = rest[3].n
             /\ reconnectTimers' = reconnectTimers
        ELSE /\ Len(rest) = 1
             /\ rest[1].op = "setTimeout"
             /\ rest[1].ev = "attemptReconnect"
             /\ reconnectTimers' = reconnectTimers + 1
             /\ pollTimers' = pollTimers
             /\ pollingInterval' = pollingInterval]_vars

C14_Witness ==
    /\ handler = "connect_error"
    /\ reconnectAttempts >= maxReconnectAttempts
    /\ HasOp("setInterval")
    /\ Has("dispatch", "polling_started")

\* C15: a polling tick and the completion of pollForUpdates leave
\* reconnectAttempts, isConnected and the callback registry unchanged;
\* `polling_update` is dispatched only when the response is ok, and a failed
\* fetch raises no error.
C15_PollingLeavesBackoffAlone ==
    [][handler' \in {"pollTick", "pollSettles"} =>
        /\ reconnectAttempts' = reconnectAttempts
        /\ isConnected' = isConnected
        /\ eventCallbacks' = eventCallbacks
        /\ reconnectTimers' = reconnectTimers
        /\ ~uncaught'
        /\ handler' = "pollTick" => ~Has("dispatch", "polling_update")'
        /\ handler' = "pollSettles" =>
              (Has("dispatch", "polling_update")' <=> trace'[1] = Ev("response", "ok", "", 0))]_vars

\* a fetch failed after the attempts were used up
C15_Witness ==
    /\ handler = "pollSettles"
    /\ trace[1] = Ev("response", "rejected", "", 0)
    /\ reconnectAttempts >= maxReconnectAttempts

\* C17: when io() throws inside connect(), or the transport reports
\* 'connect_error', no error reaches the caller; `connection_error` is
\* dispatched and scheduleReconnect runs, so that a retry is armed whenever
\* reconnectAttempts < 10.
C17_ConnectFailureIsCaptured ==
    (handler = "connect_error" \/ Has("io", "throws")) =>
        /\ ~uncaught
        /\ Has("dispatch", "connection_error")
        /\ IF reconnectAttempts < maxReconnectAttempts
           THEN trace[Len(trace)].op = "setTimeout" /\ reconnectTimers >= 1
           ELSE Has("dispatch", "reconnect_failed")

\* io() threw inside the connect() that attemptReconnect called from a timer
C17_Witness ==
    /\ handler = "reconnectTimer"
    /\ Has("io", "throws")
    /\ HasOp("setTimeout")
    /\ reconnectAttempts >= 1

\* C18: after destroy() the registry is empty, and while it stays so no event
\* invokes a callback.
C18_RegistryClearedOnDestroy ==
    [][/\ handler' = "destroy" => DOMAIN eventCallbacks' = {}
       /\ DOMAIN eventCallbacks = {} => ~HasOp("call")']_vars

\* destroy() ran with a subscriber registered: it was told of the disconnect
\* and is gone
C18_Witness ==
    /\ handler = "destroy"
    /\ Has("call", "connection_change")
    /\ DOMAIN eventCallbacks = {}

\* C16: when, from construction on, the initial connect and every retry fail
\* and nothing else happens, the timer armed after the k-th failure in a row has
\* the delay of exponent k - 1 before jitter: 1000 ms, 1500 ms and, after the
\* third failure, 2250 ms.
C16_KthFailureUsesExponentKMinus1 ==
    \A i \in 1..Len(trace) :
        (trace[i].op = "setTimeout" /\ streak >= 1) =>
            \E j \in Jitters :
                LET base == trace[i].n - j * Scale IN
                /\ base = CappedBackoff(streak - 1)
                /\ streak = 1 => base = 1000 * Scale
                /\ streak = 2 => base = 1500 * Scale
                /\ streak = 3 => base = 2250 * Scale

C16_Witness ==
    /\ streak = 3
    /\ handler = "connect_error"
    /\ \E i \in 1..Len(trace) : trace[i].op = "setTimeout" /\ trace[i].n = 2250 * Scale

\* C13: left to itself after a disconnect that was not asked for or after a
\* failed connection attempt, the manager is connected again, with
\* reconnectAttempts back at 0, at some later point.
C13_RecoversWithoutHelp ==
    (handler = "disconnect" \/ AttemptFailed) ~> (isConnected /\ reconnectAttempts = 0)

\* C19: whenever a chart exists, its dataset has as many values as the chart
\* has labels: 6 for command usage, 7 for growth.
C19_DataMatchesLabels ==
    /\ commandChart.exists =>
          Len(commandChart.data) = Len(commandChart.labels) /\ Len(commandChart.data) = 6
    /\ growthChart.exists =>
          Len(growthChart.data) = Len(growthChart.labels) /\ Len(growthChart.data) = 7

\* C20: a chart that updateChartsWithRealData has given the server's data
\* still shows that data, whatever timer ticks came after.
C20_RealDataIsKept ==
    /\ (commandChart.exists /\ applied.command_usage.present) =>
          commandChart.data = applied.command_usage.value
    /\ (growthChart.exists /\ applied.growth_data.present) =>
          growthChart.data = applied.growth_data.value

\* the number of entries of a sequence that satisfy a test
Count(q, Test(_)) == Len(SelectSeq(q, Test))

\* C21: in a dispatch, every callback that was registered when the dispatch
\* began and that no callback removed is called exactly once for each of its
\* registrations, also when another callback of the same name calls off()
\* on itself while the dispatch runs.
C21_NoCallbackSkippedByOff ==
    [][handler' = "triggerEvent" =>
        \A event \in RegNames, c \in Callbacks \ SelfRemoving :
            Has("dispatch", event)' =>
                Count(trace', LAMBDA e : e.op = "call" /\ e.cb = c)
                    = Count(ListOf(eventCallbacks, event), LAMBDA x : x = c)]_vars

\* C22: when destroy() has returned, no poll timer armed by the manager is
\* still live, however many times setupPollingFallback ran before.
C22_DestroyStopsPolling ==
    handler = "destroy" => pollTimers = {}

\* C23: no `polling_update` is dispatched while isConnected is true, also
\* when the fetch was started before the transport connected and settles
\* after it.
C23_NoPollingUpdateWhileConnected ==
    Has("dispatch", "polling_update") => ~isConnected

\* C24: emit(event, data) hands the message to the transport exactly when
\* isConnected is true and there is a socket; otherwise nothing is sent and
\* nothing is kept: isConnected, reconnectAttempts, the registry, the socket
\* and every timer and fetch are as before, and the message is sent by no
\* later handler.
C24_EmitForwardsIffConnected ==
    [][/\ handler' = "emit" =>
            /\ Has("socket.emit", "command")' <=> (isConnected /\ socket # "null")
            /\ Len(trace') <= 1
            /\ isConnected' = isConnected
            /\ reconnectAttempts' = reconnectAttempts
            /\ eventCallbacks' = eventCallbacks
            /\ socket' = socket
            /\ reconnectTimers' = reconnectTimers
            /\ pollTimers' = pollTimers
            /\ fetches' = fetches
       /\ Has("socket.emit", "command")' => handler' = "emit"]_vars

C24_Witness ==
    /\ handler = "emit"
    /\ trace = <<Ev("socket.emit", "command", "", 0)>>
    /\ isConnected
    /\ socket = "open"

DashboardShown(type) ==
    SelectSeq(dashboard.trace, LAMBDA e : e.op = "showNotification" /\ e.cb = type)

DashboardFetches == SelectSeq(dashboard.trace, LAMBDA e : e.op = "fetch")

\* C25: executeCommand sends POST /api/execute exactly when the dashboard's
\* isConnected is true, a flag only 'connect' sets and only 'disconnect'
\* clears; when it is false it sends nothing and shows one error notification;
\* when the fetch rejects or the response cannot be read it shows an error
\* notification; in no case does an error leave the handler.
C25_ExecuteOnlyWhenConnected ==
    [][/\ dashboard'.handler = "executeCommand" =>
            IF dashboard.isConnected
            THEN /\ DashboardFetches' = <<Ev("fetch", "/api/execute", "command", 0)>>
                 /\ dashboard'.executing = dashboard.executing + 1
                 /\ DashboardShown("error")' = <<>>
            ELSE /\ DashboardFetches' = <<>>
                 /\ dashboard'.executing = dashboard.executing
                 /\ Len(DashboardShown("error")') = 1
                 /\ Len(dashboard'.notifications) = Len(dashboard.notifications) + 1
       /\ (/\ dashboard'.handler = "executeCommandResumes"
           /\ dashboard'.trace[1].ev \in {"rejected", "unreadable"}) =>
               /\ Len(DashboardShown("error")') = 1
               /\ DashboardShown("success")' = <<>>
       /\ dashboard'.isConnected # dashboard.isConnected =>
               dashboard'.handler = IF dashboard'.isConnected THEN "connect" ELSE "disconnect"
       /\ ~dashboard'.uncaught]_vars

C25_Witness ==
    /\ dashboard.handler = "executeCommandResumes"
    /\ dashboard.trace[1] = Ev("response", "unreadable", "", 0)
    /\ Len(DashboardShown("error")) = 1
    /\ ~dashboard.isConnected
    /\ dashboard.executing = 1

====
